---- MODULE Spec2Model ----
(***************************************************************************)
(* DeepSCF (src/deepqc/scf/scf.py): a Hartree-Fock solver whose effective  *)
(* potential is the baseline potential plus a learned correction.          *)
(*                                                                         *)
(* Numbers are integers.  Energies that the code halves (0.5 * trace) are  *)
(* kept in half units: a value x of the code is the integer 2*x here.      *)
(* The spectrum of a projected block (torch.symeig(...)[0]) is kept as its *)
(* power sums tr S, tr S^2, ..., which determine the sorted eigenvalues.   *)
(* The learned model is a spectral polynomial, so its gradient through the *)
(* eigendecomposition is an integer matrix.                                *)
(***************************************************************************)
EXTENDS Integers, Sequences, FiniteSets, TLC

\* ------------------------------------------------------------------ bounds
\* largest entry of a density matrix the driver produces
MaxD == 1

\* ------------------------------------------------------------ the molecule
\* mol.nao and mol.natm of the molecule handed to the constructor
nao == 2
natm == 2

Idx == 1..nao
Atoms == 1..natm

\* -------------------------------------------------------------- arithmetic
RECURSIVE Tab(_, _)
\* the list << f[1], ..., f[n] >>, every entry evaluated once
Tab(f, n) == IF n = 0 THEN <<>> ELSE Append(Tab(f, n - 1), f[n])

RECURSIVE SumTo(_, _)
\* f[1] + ... + f[n]
SumTo(f, n) == IF n = 0 THEN 0 ELSE SumTo(f, n - 1) + f[n]

RECURSIVE SumSeq(_)
\* sum(list) of a list of integers
SumSeq(s) == IF s = <<>> THEN 0 ELSE Head(s) + SumSeq(Tail(s))

RECURSIVE Flatten(_)
\* sum(lists, []) : concatenation of a list of lists
Flatten(ss) == IF ss = <<>> THEN <<>> ELSE Head(ss) \o Flatten(Tail(ss))

Min2(a, b) == IF a <= b THEN a ELSE b
Max2(a, b) == IF a >= b THEN a ELSE b

\* [v] * n
Repeat(v, n) == Tab([i \in 1..n |-> v], n)

\* a rows x cols matrix of zeros
ZeroM(rows, cols) == Repeat(Repeat(0, cols), rows)

\* shape of a matrix kept as a sequence of rows
Rows(m) == Len(m)
Cols(m) == IF Len(m) = 0 THEN 0 ELSE Len(m[1])

\* elementwise a + b and a - b of equally shaped matrices
MAdd(a, b) ==
    Tab([i \in 1..Rows(a) |-> Tab([j \in 1..Cols(a) |-> a[i][j] + b[i][j]], Cols(a))],
        Rows(a))
MSub(a, b) ==
    Tab([i \in 1..Rows(a) |-> Tab([j \in 1..Cols(a) |-> a[i][j] - b[i][j]], Cols(a))],
        Rows(a))

\* np.einsum('ij,ji', a, b) = trace(a . b)
EinsumTrace(a, b) ==
    SumTo([i \in 1..Rows(a) |->
              SumTo([j \in 1..Cols(a) |-> a[i][j] * b[j][i]], Cols(a))], Rows(a))

IsSymmetric(m) ==
    /\ Rows(m) = Cols(m)
    /\ \A i \in 1..Rows(m) : \A j \in 1..Rows(m) : m[i][j] = m[j][i]

\* ------------------------------------------------------ auxiliary basis
\* A shell b of the basis list, pyscf convention [l, row_1, ..., row_nprim],
\* each row [zeta, c_1, ..., c_nctr]:  l = b[0], nprim = len(b)-1 zeta rows,
\* nctr = len(row)-1 contracted functions.
Shell(l, nprim, nctr) == [l |-> l, nprim |-> nprim, nctr |-> nctr]

\* DEFAULT_BASIS scaled down: shells l = 0, 1 with one zeta row each (the
\* source has l = 0, 1, 2 with twelve); the table is square as in the source,
\* one zeta row per contracted function
DEFAULT_BASIS == << Shell(0, 1, 1), Shell(1, 1, 1) >>

\* the basis lists a caller may pass
Bases ==
    { DEFAULT_BASIS,
      << Shell(0, 2, 2) >>,         \* two zeta rows, two contracted functions
      << Shell(0, 2, 1) >> }        \* two zeta rows contracted into one function


\* self.shell_sec = sum(([2*b[0]+1] * (len(b)-1) for b in basis), [])
shell_sec_of(bs) ==
    Flatten(Tab([i \in 1..Len(bs) |-> Repeat(2 * bs[i].l + 1, bs[i].nprim)], Len(bs)))

\* test_mol.nao // natm : functions per auxiliary centre, (2l+1) per
\* contracted function of every shell
PerAtomWidth(bs) ==
    SumTo([i \in 1..Len(bs) |-> (2 * bs[i].l + 1) * bs[i].nctr], Len(bs))

\* gto.intor_cross('int1e_ovlp_sph', mol, test_mol)[r, (a, k)] : the overlap
\* of orbital r with auxiliary function k on atom a (fixed integer table)
Ovlp(r, a, k) == ((r * k + 2 * a + k * k + r) % 3) - 1

\* gen_proj_ovlp(mol, basis) : shape [nao x natom x nproj]
gen_proj_ovlp(bs) ==
    LET nproj == PerAtomWidth(bs)
    IN  Tab([r \in Idx |-> Tab([a \in Atoms |->
            Tab([k \in 1..nproj |-> Ovlp(r, a, k)], nproj)], natm)], nao)

\* torch.split(t, sizes, -1) is defined when the sizes sum to the last axis
SplitOk(width, sizes) == SumSeq(sizes) = width

\* first index of block b, minus one
Offset(sizes, b) == SumSeq(SubSeq(sizes, 1, b - 1))

\* torch.split(t, sizes, -1) : contiguous blocks of the last axis, in order
TorchSplit(t, sizes) ==
    Tab([b \in 1..Len(sizes) |->
        LET off == Offset(sizes, b)
        IN  Tab([r \in Idx |-> Tab([a \in Atoms |->
                Tab([p \in 1..sizes[b] |-> t[r][a][off + p]], sizes[b])], natm)], nao)],
        Len(sizes))

\* torch.einsum('rap,saq->rsapq', po, po) for a block po of width w
ProjAo(po, w) ==
    Tab([r \in Idx |-> Tab([s \in Idx |-> Tab([a \in Atoms |->
        Tab([p \in 1..w |-> Tab([q \in 1..w |-> po[r][a][p] * po[s][a][q]], w)], w)],
        natm)], nao)], nao)

\* ------------------------------------------------------------ engine state
VARIABLES
    phase,          \* "new" | "ready" | "failed" : the constructor's outcome
    basis,          \* self.basis
    shell_sec,      \* self.shell_sec
    t_proj_ovlp,    \* self.t_proj_ovlp
    t_proj_shells,  \* self.t_proj_shells
    t_proj_aos,     \* self.t_proj_aos
    net,            \* self.net
    incremental,    \* the baseline solver updates incrementally (direct SCF)
    pc,             \* the driver: "idle", or "returned" from the call in ret
    dm,             \* the driver's density matrix (what make_rdm1() returns)
    dm_last,        \* the driver's previous density matrix
    vhf_last,       \* the driver's previous potential
    ret             \* the last call and what it returned

engine == << basis, shell_sec, t_proj_ovlp, t_proj_shells, t_proj_aos, net, incremental >>
driver == << dm, dm_last, vhf_last >>
vars == << phase, basis, shell_sec, t_proj_ovlp, t_proj_shells, t_proj_aos, net,
           incremental, pc, dm, dm_last, vhf_last, ret >>

\* ----------------------------------------------------------- numpy arrays
\* An array argument: nd = number of axes, d = its entries as rows (a 1-D
\* array is one row; of a 3-D array only the first matrix is kept, no
\* operation gets as far as reading it).  nd = 0 stands for None.
Array(nd, d) == [nd |-> nd, d |-> d]
NoneArr == Array(0, <<>>)
IsNone(x) == x.nd = 0

\* the array is a nao x nao matrix
ShapeOk(x) == x.nd = 2 /\ Rows(x.d) = nao /\ Cols(x.d) = nao

\* --------------------------------------------------------- learned model
\* The model as a function of the descriptor tensor:
\*   ec = sum_{a,b} w*b*p1[a,b] + q * sum_{a,b} p2[a,b] + c * (sum_{a,b} p1[a,b])^2
\* with p1, p2 the first two power sums of block b of atom a.  attached says
\* whether the output is computed from the input (has a grad_fn); a model
\* that returns a constant is not.
Net(attached, w, q, c) == [attached |-> attached, w |-> w, q |-> q, c |-> c]

Nets ==
    { Net(FALSE, 0, 0, 0),      \* constant zero
      Net(TRUE, 0, 0, 0),       \* 0 * sum(eigs)
      Net(TRUE, 1, 0, 0),       \* test_model: a multiple of sum(eigs)
      Net(TRUE, 1, 1, 1) }

\* a model that evaluates to zero for every descriptor tensor
IsZeroNet(n) == n.w = 0 /\ n.q = 0 /\ n.c = 0

NBlocks == Len(shell_sec)

\* ---------------------------------------------------- eigendecomposition
\* the symmetric matrix torch.symeig reads: the upper triangle (upper=True)
SymView(m, w) ==
    Tab([p \in 1..w |-> Tab([q \in 1..w |-> m[Min2(p, q)][Max2(p, q)]], w)], w)

MMul(x, y, w) ==
    Tab([p \in 1..w |-> Tab([q \in 1..w |->
        SumTo([k \in 1..w |-> x[p][k] * y[k][q]], w)], w)], w)

Trace(x, w) == SumTo([p \in 1..w |-> x[p][p]], w)

RECURSIVE PowerSums(_, _, _, _)
\* << tr S^k, tr S^(k+1), ..., tr S^w >>, given Sk = S^k
PowerSums(S, Sk, k, w) ==
    IF k > w THEN <<>>
    ELSE << Trace(Sk, w) >> \o PowerSums(S, MMul(Sk, S, w), k + 1, w)

\* torch.symeig(m)[0] : the spectrum of the w x w matrix, as the power sums
\* p_1 .. p_w of its eigenvalues
symeig(m, w) ==
    LET S == SymView(m, w)
    IN  PowerSums(S, S, 1, w)

\* torch.einsum('rap,rs,saq->apq', po, t_dm, po) for a block po of width w
proj_dm(po, d, w) ==
    Tab([a \in Atoms |-> Tab([p \in 1..w |-> Tab([q \in 1..w |->
        SumTo([r \in Idx |->
            SumTo([s \in Idx |-> po[r][a][p] * d[r][s] * po[s][a][q]], nao)], nao)],
        w)], w)], natm)

\* proj_dms of t_get_ec / make_eig : one projected density per block
proj_dms(d) ==
    Tab([b \in 1..NBlocks |-> proj_dm(t_proj_shells[b], d, shell_sec[b])], NBlocks)

\* torch.cat(proj_eigs, dim=-1) : natoms x nproj
cat_eigs(pdms) ==
    Tab([a \in Atoms |->
        Flatten(Tab([b \in 1..NBlocks |-> symeig(pdms[b][a], shell_sec[b])], NBlocks))],
        natm)

\* first and second power sum of block b of atom a, read from ceig
P1(ceig, a, b) == ceig[a][Offset(shell_sec, b) + 1]
P2(ceig, a, b) ==
    IF shell_sec[b] = 1 THEN P1(ceig, a, b) * P1(ceig, a, b)
    ELSE ceig[a][Offset(shell_sec, b) + 2]

SumP1(ceig) ==
    SumTo([a \in Atoms |-> SumTo([b \in 1..NBlocks |-> P1(ceig, a, b)], NBlocks)], natm)

\* self.net(ceig)
net_eval(n, ceig) ==
    LET t == SumP1(ceig)
    IN    n.w * SumTo([a \in Atoms |->
                    SumTo([b \in 1..NBlocks |-> b * P1(ceig, a, b)], NBlocks)], natm)
        + n.q * SumTo([a \in Atoms |->
                    SumTo([b \in 1..NBlocks |-> P2(ceig, a, b)], NBlocks)], natm)
        + n.c * t * t

\* grad_dm without the symmetrisation of symeig's backward: the gradient
\* lands on the upper triangle that symeig read
grad_dm_upper(n, t, pdm, b) ==
    LET w == shell_sec[b]
        S == SymView(pdm, w)
        lin == n.w * b + 2 * n.c * t
    IN  Tab([p \in 1..w |-> Tab([q \in 1..w |->
            IF p = q THEN lin + 2 * n.q * S[p][q]
            ELSE IF p < q THEN 4 * n.q * S[p][q]
            ELSE 0], w)], w)

\* torch.autograd.grad(ec, proj_dms)[b][a] : d ec / d proj_dms[b][a], through
\* the model and symeig's backward V diag(d ec / d lambda) V^T, symmetrised.
\* d p1 / dS = I and d p2 / dS = 2 S for the matrix S that symeig reads;
\* t is the sum of all first power sums.
grad_dm(n, t, pdm, b) ==
    LET w == shell_sec[b]
        S == SymView(pdm, w)
        lin == n.w * b + 2 * n.c * t
    IN  Tab([p \in 1..w |-> Tab([q \in 1..w |->
            (IF p = q THEN lin ELSE 0) + 2 * n.q * S[p][q]], w)], w)

\* torch.autograd.grad(ec, proj_dms) : one gradient per block and atom
autograd_grad(n, ceig, pdms) ==
    LET t == SumP1(ceig)
    IN  Tab([b \in 1..NBlocks |->
            Tab([a \in Atoms |-> grad_dm(n, t, pdms[b][a], b)], natm)], NBlocks)

\* shell_vc with the atom index left out of the contraction (first atom only)
shell_vc_one_atom(pao, gdm, w) ==
    Tab([r \in Idx |-> Tab([s \in Idx |->
        SumTo([p \in 1..w |->
            SumTo([q \in 1..w |-> pao[r][s][1][p][q] * gdm[1][p][q]], w)], w)],
        nao)], nao)

\* torch.einsum('rsapq,apq->rs', pao, gdm)
shell_vc(pao, gdm, w) ==
    Tab([r \in Idx |-> Tab([s \in Idx |->
        SumTo([a \in Atoms |->
            SumTo([p \in 1..w |->
                SumTo([q \in 1..w |-> pao[r][s][a][p][q] * gdm[a][p][q]], w)], w)],
            natm)], nao)], nao)

\* torch.stack(shell_vcs).sum(0)
stack_sum(vcs) ==
    Tab([r \in Idx |-> Tab([s \in Idx |->
        SumTo([b \in 1..Len(vcs) |-> vcs[b][r][s]], Len(vcs))], nao)], nao)

\* what a call of get_ec / t_get_ec comes back with.  ok = FALSE: it raised.
\* n_net counts the evaluations of the learned model.
EcResult(ok, ec, vc, n_net) == [ok |-> ok, ec |-> ec, vc |-> vc, n_net |-> n_net]

\* DeepSCF.t_get_ec(t_dm)
t_get_ec(t_dm) ==
    IF ~ShapeOk(t_dm)
    THEN EcResult(FALSE, 0, <<>>, 0)          \* einsum raises
    ELSE
    LET pdms == proj_dms(t_dm.d)
        ceig == cat_eigs(pdms)
        ec   == net_eval(net, ceig)
    IN  IF ~net.attached
        THEN EcResult(FALSE, 0, <<>>, 1)      \* autograd.grad raises
        ELSE
        LET grad_dms == autograd_grad(net, ceig, pdms)
            shell_vcs == Tab([b \in 1..NBlocks |->
                             shell_vc(t_proj_aos[b], grad_dms[b], shell_sec[b])], NBlocks)
        IN  EcResult(TRUE, ec, stack_sum(shell_vcs), 1)

\* DeepSCF.make_rdm1() : the driver's current density matrix
make_rdm1 == dm

\* DeepSCF.get_ec(dm)
get_ec(dArg) == t_get_ec(IF IsNone(dArg) THEN make_rdm1 ELSE dArg)

\* DeepSCF.make_eig(dm): [ok, eig]
make_eig(dArg) ==
    LET d == IF IsNone(dArg) THEN make_rdm1 ELSE dArg
    IN  IF ~ShapeOk(d)
        THEN [ok |-> FALSE, eig |-> <<>>]     \* einsum raises
        ELSE [ok |-> TRUE, eig |-> cat_eigs(proj_dms(d.d))]

\* ------------------------------------------------------- baseline solver
\* two-electron integrals (ij|kl) of the molecule (fixed integer table)
Eri(i, j, k, l) ==
    IF i = j /\ k = l THEN 4
    ELSE IF (i = k /\ j = l) \/ (i = l /\ j = k) THEN 2
    ELSE 0

\* vj - vk * .5 of the baseline solver for the matrix d: linear in d
JK(d) ==
    Tab([i \in Idx |-> Tab([j \in Idx |->
        SumTo([k \in Idx |-> SumTo([l \in Idx |->
            Eri(i, j, k, l) * d[l][k] - (Eri(i, k, j, l) \div 2) * d[l][k]], nao)], nao)],
        nao)], nao)

\* self.get_hcore()
get_hcore == Array(2, << <<-2, -1>>, <<-1, -2>> >>)

\* self.get_veff0(mol, dm, dm_last, vhf_last, hermi) = RHF.get_veff, for
\* matrices d_last and v_last (the scalar default 0 is the zero matrix):
\* [ok, v0]; it raises on an array that is no nao x nao matrix
get_veff0(d, d_last, v_last) ==
    IF ~ShapeOk(d) THEN [ok |-> FALSE, v0 |-> <<>>]
    ELSE IF incremental
         THEN [ok |-> TRUE, v0 |-> MAdd(JK(MSub(d.d, d_last)), v_last)]
         ELSE [ok |-> TRUE, v0 |-> JK(d.d)]

\* ------------------------------------------------------ tagged potentials
\* lib.tag_array(arr, ec=ec, v0=v0) and its partial forms; an absent tag
\* holds a fixed filler that is never read
Vhf(none, arr, has_ec, ec, has_v0, v0) ==
    [none |-> none, arr |-> arr, has_ec |-> has_ec, ec |-> ec,
     has_v0 |-> has_v0, v0 |-> v0]
NoneVhf == Vhf(TRUE, <<>>, FALSE, 0, FALSE, <<>>)
Plain(arr) == Vhf(FALSE, arr, FALSE, 0, FALSE, <<>>)
tag_array(arr, ec, v0) == Vhf(FALSE, arr, TRUE, ec, TRUE, v0)
OnlyEc(v) == Vhf(FALSE, v.arr, TRUE, v.ec, FALSE, <<>>)
OnlyV0(v) == Vhf(FALSE, v.arr, FALSE, 0, TRUE, v.v0)

\* the scalar default 0 of dm_last and vhf_last, as arrays
Zero == ZeroM(nao, nao)

\* getattr(vhf_last, 'v0', 0)
v0_last_of(v_last) == IF v_last.has_v0 THEN v_last.v0 ELSE Zero

\* what a call of get_veff comes back with; the counters are the calls of
\* the baseline solver and of the learned model it made
VeffResult(ok, vhf, n_veff0, n_net) ==
    [ok |-> ok, vhf |-> vhf, n_veff0 |-> n_veff0, n_net |-> n_net]

\* get_veff tagging the total potential as v0
get_veff_tag_total(dArg, d_last, v_last) ==
    LET d == IF IsNone(dArg) THEN make_rdm1 ELSE dArg
    IN  IF d.nd # 2
        THEN VeffResult(FALSE, NoneVhf, 0, 0)
        ELSE
        LET r0 == get_veff0(d, d_last, v0_last_of(v_last))
        IN  IF ~r0.ok
            THEN VeffResult(FALSE, NoneVhf, 1, 0)
            ELSE
            LET rc == get_ec(d)
                vtot == MAdd(r0.v0, rc.vc)
            IN  IF ~rc.ok
                THEN VeffResult(FALSE, NoneVhf, 1, rc.n_net)
                ELSE VeffResult(TRUE, tag_array(vtot, rc.ec, vtot), 1, rc.n_net)

\* get_veff without the assert on the rank of dm
get_veff_no_assert(dArg, d_last, v_last) ==
    LET d == IF IsNone(dArg) THEN make_rdm1 ELSE dArg
        r0 == get_veff0(d, d_last, v0_last_of(v_last))
    IN  IF ~r0.ok
        THEN VeffResult(FALSE, NoneVhf, 1, 0)
        ELSE
        LET rc == get_ec(d)
        IN  IF ~rc.ok
            THEN VeffResult(FALSE, NoneVhf, 1, rc.n_net)
            ELSE VeffResult(TRUE, tag_array(MAdd(r0.v0, rc.vc), rc.ec, r0.v0),
                            1, rc.n_net)

\* get_veff handing the whole previous potential to the baseline solver
get_veff_total_last(dArg, d_last, v_last) ==
    LET d == IF IsNone(dArg) THEN make_rdm1 ELSE dArg
    IN  IF d.nd # 2
        THEN VeffResult(FALSE, NoneVhf, 0, 0)
        ELSE
        LET r0 == get_veff0(d, d_last, v_last.arr)
        IN  IF ~r0.ok
            THEN VeffResult(FALSE, NoneVhf, 1, 0)
            ELSE
            LET rc == get_ec(d)
            IN  IF ~rc.ok
                THEN VeffResult(FALSE, NoneVhf, 1, rc.n_net)
                ELSE VeffResult(TRUE, tag_array(MAdd(r0.v0, rc.vc), rc.ec, r0.v0),
                                1, rc.n_net)

\* DeepSCF.get_veff(mol, dm, dm_last, vhf_last, hermi)
get_veff(dArg, d_last, v_last) ==
    LET d == IF IsNone(dArg) THEN make_rdm1 ELSE dArg
    IN  IF d.nd # 2
        THEN VeffResult(FALSE, NoneVhf, 0, 0)                 \* assert
        ELSE
        LET v0_last == v0_last_of(v_last)
            r0 == get_veff0(d, d_last, v0_last)
        IN  IF ~r0.ok
            THEN VeffResult(FALSE, NoneVhf, 1, 0)
            ELSE
            LET rc == get_ec(d)
            IN  IF ~rc.ok
                THEN VeffResult(FALSE, NoneVhf, 1, rc.n_net)
                ELSE VeffResult(TRUE,
                                tag_array(MAdd(r0.v0, rc.vc), rc.ec, r0.v0),
                                1, rc.n_net)

\* what a call of energy_elec / energy_elec0 comes back with; e is the pair
\* returned, in half units
EnergyResult(ok, e, n_get_veff, n_veff0, n_net) ==
    [ok |-> ok, e |-> e, n_get_veff |-> n_get_veff, n_veff0 |-> n_veff0,
     n_net |-> n_net]

\* energy_elec taking the Coulomb energy from the total potential
energy_elec_total(dArg, h1eArg, vhfArg) ==
    LET d == IF IsNone(dArg) THEN make_rdm1 ELSE dArg
        h1e == IF IsNone(h1eArg) THEN get_hcore ELSE h1eArg
        redo == vhfArg.none \/ ~vhfArg.has_ec
        r == get_veff(d, Zero, Plain(Zero))
        n1 == IF redo THEN 1 ELSE 0
        n2 == IF redo THEN r.n_veff0 ELSE 0
        n3 == IF redo THEN r.n_net ELSE 0
    IN  IF redo /\ ~r.ok
        THEN EnergyResult(FALSE, <<>>, n1, n2, n3)
        ELSE
        LET vhf == IF redo THEN r.vhf ELSE vhfArg
        IN  IF ~ShapeOk(d) \/ ~vhf.has_v0
            THEN EnergyResult(FALSE, <<>>, n1, n2, n3)
            ELSE
            LET e1 == EinsumTrace(h1e.d, d.d)
                e_coul2 == EinsumTrace(vhf.arr, d.d)
            IN  EnergyResult(TRUE,
                             << 2 * e1 + e_coul2 + 2 * vhf.ec, e_coul2 + 2 * vhf.ec >>,
                             n1, n2, n3)

\* DeepSCF.energy_elec(dm, h1e, vhf)
energy_elec(dArg, h1eArg, vhfArg) ==
    LET d == IF IsNone(dArg) THEN make_rdm1 ELSE dArg
        h1e == IF IsNone(h1eArg) THEN get_hcore ELSE h1eArg
        redo == vhfArg.none \/ ~vhfArg.has_ec
        r == get_veff(d, Zero, Plain(Zero))
        n1 == IF redo THEN 1 ELSE 0
        n2 == IF redo THEN r.n_veff0 ELSE 0
        n3 == IF redo THEN r.n_net ELSE 0
    IN  IF redo /\ ~r.ok
        THEN EnergyResult(FALSE, <<>>, n1, n2, n3)
        ELSE
        LET vhf == IF redo THEN r.vhf ELSE vhfArg
        IN  IF ~ShapeOk(d) \/ ~vhf.has_v0
            THEN EnergyResult(FALSE, <<>>, n1, n2, n3)  \* einsum / vhf.v0 raises
            ELSE
            LET e1 == EinsumTrace(h1e.d, d.d)
                e_coul2 == EinsumTrace(vhf.v0, d.d)
            IN  EnergyResult(TRUE,
                             << 2 * e1 + e_coul2 + 2 * vhf.ec, e_coul2 + 2 * vhf.ec >>,
                             n1, n2, n3)

\* DeepSCF.energy_elec0(dm, h1e, vhf) : the baseline solver's energy_elec on
\* the potential given (the array itself) or on get_veff0(dm=dm)
energy_elec0(dArg, h1eArg, vhfArg) ==
    LET d == IF IsNone(dArg) THEN make_rdm1 ELSE dArg
        h1e == IF IsNone(h1eArg) THEN get_hcore ELSE h1eArg
        r0 == get_veff0(d, Zero, Zero)
        n2 == IF vhfArg.none THEN 1 ELSE 0
    IN  IF ~ShapeOk(d) \/ (vhfArg.none /\ ~r0.ok)
        THEN EnergyResult(FALSE, <<>>, 0, n2, 0)
        ELSE
        LET v == IF vhfArg.none THEN r0.v0 ELSE vhfArg.arr
            e1 == EinsumTrace(h1e.d, d.d)
            e_coul2 == EinsumTrace(v, d.d)
        IN  EnergyResult(TRUE, << 2 * e1 + e_coul2, e_coul2 >>, 0, n2, 0)

\* ------------------------------------------------------------ the callers
\* density matrices the driver produces: symmetric ones, and matrices with a
\* zero below the diagonal
DMs ==
    { Array(2, Tab([i \in Idx |-> Tab(m[i], nao)], nao)) :
        m \in { x \in [Idx -> [Idx -> 0..MaxD]] :
                  IsSymmetric(x) \/ \A i \in Idx : \A j \in Idx : i > j => x[i][j] = 0 } }

\* arrays of unexpected rank or size: 1-D, 3-D, and a matrix too large
BadDMs ==
    { Array(1, << Repeat(1, nao) >>),
      Array(3, Tab([i \in Idx |-> Tab([j \in Idx |-> IF i = j THEN 1 ELSE 0], nao)], nao)),
      Array(2, Repeat(Repeat(1, nao + 1), nao + 1)) }

\* a core Hamiltonian a caller may pass instead of get_hcore()
AltH1e == Array(2, << <<1, 0>>, <<2, -1>> >>)

\* the (dm, h1e) a caller passes to the energy calls: both left to their
\* defaults, or the driver's density matrix and a Hamiltonian of its own
EnergyArgs == { << NoneArr, NoneArr >>, << dm, AltH1e >> }

\* potentials a caller may pass to energy_elec: none, the
\* last potential as returned, stripped of its tags, with one tag only, or
\* re-tagged by hand with ec = 0
VhfArgs ==
    { NoneVhf, vhf_last, Plain(vhf_last.arr), OnlyEc(vhf_last) }
    \cup (IF vhf_last.has_v0
          THEN { OnlyV0(vhf_last), tag_array(vhf_last.arr, 0, vhf_last.v0) }
          ELSE {})

\* the record of the last call: its arguments (resolved), its outcome (ok =
\* FALSE: it raised, nothing was returned) and the calls it made
NoRet ==
    [op |-> "none", ok |-> FALSE, dm |-> NoneArr, h1e |-> NoneArr,
     vhf_arg |-> NoneVhf, dm_last |-> <<>>, vhf_last |-> NoneVhf, vhf |-> NoneVhf, e |-> <<>>, ec |-> 0, vc |-> <<>>,
     eig |-> <<>>, n_get_veff |-> 0, n_veff0 |-> 0, n_net |-> 0]

Init ==
    /\ phase = "new"
    /\ basis = <<>>
    /\ shell_sec = <<>>
    /\ t_proj_ovlp = <<>>
    /\ t_proj_shells = <<>>
    /\ t_proj_aos = <<>>
    /\ net = Net(TRUE, 0, 0, 0)
    /\ incremental = FALSE
    /\ pc = "idle"
    /\ dm = Array(2, Zero)
    /\ dm_last = Zero
    /\ vhf_last = Plain(Zero)
    /\ ret = NoRet

\* DeepSCF.__init__(mol, model, basis, device)
DeepSCF_init ==
    /\ phase = "new"
    /\ \E b \in Bases, n \in Nets, inc \in BOOLEAN :
        LET sec == shell_sec_of(b)
            ovlp == gen_proj_ovlp(b)
            shells == TorchSplit(ovlp, sec)
        IN  /\ net' = n
            /\ incremental' = inc
            /\ basis' = b
            /\ shell_sec' = sec
            /\ t_proj_ovlp' = ovlp
            /\ IF SplitOk(PerAtomWidth(b), sec)
               THEN /\ t_proj_shells' = shells
                    /\ t_proj_aos' = Tab([k \in 1..Len(sec) |-> ProjAo(shells[k], sec[k])],
                                         Len(sec))
                    /\ phase' = "ready"
               ELSE /\ t_proj_shells' = <<>>       \* torch.split raises
                    /\ t_proj_aos' = <<>>
                    /\ phase' = "failed"
    /\ UNCHANGED << pc, driver, ret >>

\* one SCF iteration of the driver: a new density matrix (or, with dm=None,
\* the current one), then get_veff(mol, dm, dm_last, vhf_last) on the
\* previous iteration's values; the driver keeps the result, and starts
\* over when the call raises
Call_get_veff ==
    /\ phase = "ready" /\ pc = "idle"
    /\ \E d \in DMs \cup BadDMs, dArg \in {"given", "none"} :
        /\ dArg = "none" => d = dm       \* dm=None: the density is unchanged
        /\ dm' = d
        /\ LET r == get_veff(IF dArg = "none" THEN NoneArr ELSE d, dm_last, vhf_last)
           IN  /\ ret' = [NoRet EXCEPT !.op = "get_veff", !.ok = r.ok, !.dm = d,
                              !.dm_last = dm_last, !.vhf_last = vhf_last,
                              !.vhf = r.vhf, !.n_veff0 = r.n_veff0, !.n_net = r.n_net]
               /\ IF r.ok
                  THEN /\ dm_last' = d.d
                       /\ vhf_last' = r.vhf
                  ELSE /\ dm_last' = Zero
                       /\ vhf_last' = Plain(Zero)
    /\ pc' = "returned"
    /\ UNCHANGED << phase, engine >>

\* energy_elec(dm, h1e, vhf) on the driver's density matrix
Call_energy_elec ==
    /\ phase = "ready" /\ pc = "idle"
    /\ \E a \in EnergyArgs, v \in VhfArgs :
        LET r == energy_elec(a[1], a[2], v)
        IN  ret' = [NoRet EXCEPT !.op = "energy_elec", !.ok = r.ok, !.dm = dm,
                        !.h1e = IF IsNone(a[2]) THEN get_hcore ELSE a[2], !.vhf_arg = v,
                        !.e = r.e, !.n_get_veff = r.n_get_veff,
                        !.n_veff0 = r.n_veff0, !.n_net = r.n_net]
    /\ pc' = "returned"
    /\ UNCHANGED << phase, engine, driver >>

\* energy_elec0(dm, h1e, vhf) on the driver's density matrix
Call_energy_elec0 ==
    /\ phase = "ready" /\ pc = "idle"
    /\ \E a \in EnergyArgs, v \in {NoneVhf, vhf_last} :
        LET r == energy_elec0(a[1], a[2], v)
        IN  ret' = [NoRet EXCEPT !.op = "energy_elec0", !.ok = r.ok, !.dm = dm,
                        !.h1e = IF IsNone(a[2]) THEN get_hcore ELSE a[2], !.vhf_arg = v,
                        !.e = r.e, !.n_veff0 = r.n_veff0]
    /\ pc' = "returned"
    /\ UNCHANGED << phase, engine, driver >>

\* get_ec(dm) on the driver's density matrix
Call_get_ec ==
    /\ phase = "ready" /\ pc = "idle"
    /\ \E dArg \in {NoneArr, dm} :
        LET r == get_ec(dArg)
        IN  ret' = [NoRet EXCEPT !.op = "get_ec", !.ok = r.ok, !.dm = dm,
                        !.ec = r.ec, !.vc = r.vc, !.n_net = r.n_net]
    /\ pc' = "returned"
    /\ UNCHANGED << phase, engine, driver >>

\* make_eig symmetrising its tensor in place: torch.from_numpy shares the
\* caller's buffer, so the caller's density matrix changes with it
Call_make_eig_inplace ==
    /\ phase = "ready" /\ pc = "idle"
    /\ \E dArg \in {NoneArr, dm} :
        LET r == make_eig(dArg)
        IN  ret' = [NoRet EXCEPT !.op = "make_eig", !.ok = r.ok, !.dm = dm,
                        !.eig = r.eig]
    /\ pc' = "returned"
    /\ dm' = IF ShapeOk(dm) THEN Array(2, SymView(dm.d, nao)) ELSE dm
    /\ UNCHANGED << phase, engine, dm_last, vhf_last >>

\* make_eig(dm) on the driver's density matrix
Call_make_eig ==
    /\ phase = "ready" /\ pc = "idle"
    /\ \E dArg \in {NoneArr, dm} :
        LET r == make_eig(dArg)
        IN  ret' = [NoRet EXCEPT !.op = "make_eig", !.ok = r.ok, !.dm = dm,
                        !.eig = r.eig]
    /\ pc' = "returned"
    /\ UNCHANGED << phase, engine, driver >>

\* the driver takes what the call returned (or its exception) and goes on
Driver_resume ==
    /\ pc = "returned"
    /\ pc' = "idle"
    /\ ret' = NoRet
    /\ UNCHANGED << phase, engine, driver >>

Next ==
    \/ DeepSCF_init
    \/ Call_get_veff
    \/ Call_energy_elec
    \/ Call_energy_elec0
    \/ Call_get_ec
    \/ Call_make_eig
    \/ Driver_resume

Spec == Init /\ [][Next]_vars

\* ================================================================ claims
\* C1: whenever get_veff returns, the matrix is v0 + vc, v0 being what the
\* baseline solver returns for this call's arguments and (ec, vc) what
\* get_ec returns for the same dm; it carries the tags ec = that correction
\* energy and v0 = that baseline potential (not the total).  The call
\* returns for every nao x nao matrix when the model's output is differentiable.
C1_VeffIsBaselinePlusCorrection ==
    (ret.op = "get_veff") =>
        LET r0 == get_veff0(ret.dm, ret.dm_last, v0_last_of(ret.vhf_last))
            rc == t_get_ec(ret.dm)
        IN  /\ (ShapeOk(ret.dm) /\ net.attached) => ret.ok
            /\ ret.ok =>
                /\ \A i \in Idx : \A j \in Idx :
                       ret.vhf.arr[i][j] = r0.v0[i][j] + rc.vc[i][j]
                /\ ret.vhf.has_ec /\ ret.vhf.ec = rc.ec
                /\ ret.vhf.has_v0 /\ ret.vhf.v0 = r0.v0

\* get_veff returned a potential whose correction part and energy are not zero
C1_Witness ==
    /\ ret.op = "get_veff" /\ ret.ok
    /\ ret.vhf.arr # ret.vhf.v0
    /\ ret.vhf.ec # 0

\* trace(x . y) through the matrix product
TraceProd(x, y) == Trace(MMul(x, y, nao), nao)

\* C2: for a potential tagged with ec and v0, energy_elec returns
\* (e1 + e_coul + ec, e_coul + ec) with e1 = trace(H.D) and e_coul =
\* 0.5 trace(V0.D) from the v0 tag (not from the total potential); with
\* ec = 0 the first component is the baseline solver's electronic energy on
\* V0.  (Half units: every term is doubled.)
C2_EnergyFromTags ==
    (ret.op = "energy_elec" /\ ret.ok /\ ret.vhf_arg.has_ec /\ ret.vhf_arg.has_v0) =>
        LET e1x2 == 2 * TraceProd(ret.h1e.d, ret.dm.d)
            e_coulx2 == TraceProd(ret.vhf_arg.v0, ret.dm.d)
            ecx2 == 2 * ret.vhf_arg.ec
        IN  /\ ret.e = << e1x2 + e_coulx2 + ecx2, e_coulx2 + ecx2 >>
            /\ ret.vhf_arg.ec = 0 =>
                   ret.e[1] = energy_elec0(ret.dm, ret.h1e, Plain(ret.vhf_arg.v0)).e[1]

\* energy_elec returned for a tagged potential whose total differs from its
\* v0 tag in the Coulomb trace, with a correction energy
C2_Witness ==
    /\ ret.op = "energy_elec" /\ ret.ok
    /\ ret.vhf_arg.has_ec /\ ret.vhf_arg.has_v0 /\ ret.vhf_arg.ec # 0
    /\ TraceProd(ret.vhf_arg.arr, ret.dm.d) # TraceProd(ret.vhf_arg.v0, ret.dm.d)

\* C3: energy_elec never fails because of a missing tag: without a potential
\* or without its ec tag it calls get_veff(dm=dm) exactly once and, when that
\* returns, answers from its tags; with an ec tag it calls neither get_veff
\* nor the baseline solver nor the model and, for a nao x nao density
\* matrix, answers from the tags given.
C3_NoFailureOnMissingTag ==
    (ret.op = "energy_elec") =>
        IF ret.vhf_arg.none \/ ~ret.vhf_arg.has_ec
        THEN LET r == get_veff(ret.dm, Zero, Plain(Zero))
             IN  /\ ret.n_get_veff = 1
                 /\ ret.n_veff0 = r.n_veff0 /\ ret.n_net = r.n_net
                 /\ r.ok => /\ ret.ok
                            /\ ret.e[2] = TraceProd(r.vhf.v0, ret.dm.d) + 2 * r.vhf.ec
        ELSE /\ ret.n_get_veff = 0 /\ ret.n_veff0 = 0 /\ ret.n_net = 0
             /\ ShapeOk(ret.dm) => ret.ok

\* C4: with a model that evaluates to zero for every descriptor tensor,
\* get_ec returns ec = 0 and an all-zero vc for every density matrix, and
\* get_veff completes and returns the baseline potential, tagged ec = 0, v0.
C4_ZeroFunctional ==
    (IsZeroNet(net) /\ ShapeOk(ret.dm)) =>
        /\ ret.op = "get_ec" => (ret.ok /\ ret.ec = 0 /\ ret.vc = Zero)
        /\ ret.op = "get_veff" =>
               /\ ret.ok
               /\ ret.vhf.has_ec /\ ret.vhf.ec = 0
               /\ ret.vhf.has_v0 /\ ret.vhf.arr = ret.vhf.v0

\* the correction energy as a function of the density matrix
EcOf(d) == net_eval(net, cat_eigs(proj_dms(d)))

\* the symmetric unit direction of element (r, s)
SymDir(r, s) ==
    Tab([i \in Idx |-> Tab([j \in Idx |->
        IF (i = r /\ j = s) \/ (i = s /\ j = r) THEN 1 ELSE 0], nao)], nao)

\* sum over blocks, atoms and p, q of P[r,a,p] * G[a,p,q] * P[s,a,q]
Reconstruct(G, r, s) ==
    SumTo([b \in 1..NBlocks |->
        SumTo([a \in Atoms |->
            SumTo([p \in 1..shell_sec[b] |->
                SumTo([q \in 1..shell_sec[b] |->
                    t_proj_shells[b][r][a][p] * G[b][a][p][q] * t_proj_shells[b][s][a][q]],
                    shell_sec[b])], shell_sec[b])], natm)], NBlocks)

\* the unit matrix of element (r, s) alone
UnitDir(r, s) ==
    Tab([i \in Idx |-> Tab([j \in Idx |-> IF i = r /\ j = s THEN 1 ELSE 0], nao)], nao)

\* C5 as stated: the vc that get_ec returns is the derivative of the
\* correction energy with respect to each element (r, s) of the density
\* matrix: the central difference of ec in D[r,s] alone (exact, ec being a
\* polynomial of degree two) is 2 vc[r,s].
C5_ElementwiseDerivative ==
    (ret.op = "get_ec" /\ ret.ok) =>
        \A r \in Idx : \A s \in Idx :
            EcOf(MAdd(ret.dm.d, UnitDir(r, s))) - EcOf(MSub(ret.dm.d, UnitDir(r, s)))
                = 2 * ret.vc[r][s]

\* C5, amended: the vc that get_ec returns is the reconstruction
\* sum P[r,a,p] G[a,p,q] P[s,a,q] of the block gradients G, and it is the
\* derivative of the correction energy on symmetric density matrices: along
\* the symmetric unit direction of every pair (r, s) the central difference
\* of ec equals twice the contraction of vc with the direction, that is
\* 2 vc[r,r] for r = s and 2 (vc[r,s] + vc[s,r]) otherwise.
C5_VcIsDerivative ==
    (ret.op = "get_ec" /\ ret.ok) =>
        LET D == ret.dm.d
            pdms == proj_dms(D)
            G == autograd_grad(net, cat_eigs(pdms), pdms)
        IN  /\ \A r \in Idx : \A s \in Idx : ret.vc[r][s] = Reconstruct(G, r, s)
            /\ \A r \in Idx : \A s \in r..nao :
                   EcOf(MAdd(D, SymDir(r, s))) - EcOf(MSub(D, SymDir(r, s)))
                       = 2 * (IF r = s THEN ret.vc[r][r]
                              ELSE ret.vc[r][s] + ret.vc[s][r])

\* get_ec returned a potential with a non-zero off-diagonal element, from a
\* basis with a block wider than one function
C5_Witness ==
    /\ ret.op = "get_ec" /\ ret.ok
    /\ \E b \in 1..NBlocks : shell_sec[b] > 1
    /\ \E r \in Idx : \E s \in Idx : r # s /\ ret.vc[r][s] # 0
    /\ net.q # 0

\* C6: for a symmetric density matrix the vc returned is a symmetric
\* nao x nao matrix, and every block gradient it is built from is symmetric.
C6_VcSymmetric ==
    (ret.op = "get_ec" /\ ret.ok /\ IsSymmetric(ret.dm.d)) =>
        LET pdms == proj_dms(ret.dm.d)
            G == autograd_grad(net, cat_eigs(pdms), pdms)
        IN  /\ Rows(ret.vc) = nao /\ Cols(ret.vc) = nao
            /\ IsSymmetric(ret.vc)
            /\ \A b \in 1..NBlocks : \A a \in Atoms : IsSymmetric(G[b][a])

\* get_ec returned a non-zero potential for a symmetric density matrix with a
\* non-zero off-diagonal element, a block gradient having one too
C6_Witness ==
    /\ ret.op = "get_ec" /\ ret.ok
    /\ IsSymmetric(ret.dm.d) /\ ret.dm.d[1][2] # 0
    /\ ret.vc # Zero
    /\ LET pdms == proj_dms(ret.dm.d)
           G == autograd_grad(net, cat_eigs(pdms), pdms)
       IN  \E b \in 1..NBlocks : \E a \in Atoms :
               shell_sec[b] > 1 /\ G[b][a][1][2] # 0

\* C7: construction splits the last axis of the projection tensor into one
\* block per shell of the basis, in order, of width (2l+1) x (number of zeta
\* rows of the shell); the widths sum to the per-atom width of the tensor
\* and the split never fails.
C7_OneBlockPerShell ==
    (phase # "new") =>
        /\ phase = "ready"
        /\ Len(t_proj_shells) = Len(basis)
        /\ \A i \in 1..Len(basis) :
               Len(t_proj_shells[i][1][1]) = (2 * basis[i].l + 1) * basis[i].nprim
        /\ SumSeq(shell_sec) = Len(t_proj_ovlp[1][1])

\* C8: once the engine is constructed no call changes it: the cached
\* projection data, the shell widths and the model stay what construction
\* made them, and the density matrix the caller passed is the caller's
\* density matrix after the call.
C8_CallsLeaveEngineAlone ==
    [][ (phase = "ready") =>
            /\ phase' = phase
            /\ engine' = engine
            /\ (pc' = "returned") => dm' = ret'.dm ]_vars

\* a call on a usable density matrix has returned
C8_Witness ==
    /\ phase = "ready" /\ pc = "returned"
    /\ ret.op = "make_eig" /\ ret.ok
    /\ ~IsSymmetric(dm.d)

C10_NoCorrectionAccumulates ==
    (phase = "ready" /\ vhf_last.has_v0) =>
        /\ vhf_last.v0 = JK(dm_last)
        /\ vhf_last.arr = MAdd(JK(dm_last), t_get_ec(Array(2, dm_last)).vc)

\* an incremental update on top of an earlier iteration whose potential
\* carried a correction, for a different density matrix
C10_Witness ==
    /\ ret.op = "get_veff" /\ ret.ok /\ incremental
    /\ ret.vhf_last.has_v0
    /\ ret.vhf_last.arr # ret.vhf_last.v0
    /\ ret.dm_last # ret.dm.d
    /\ ret.vhf.arr # ret.vhf.v0

====
